---------------------------- MODULE Spec2Model ----------------------------
(***************************************************************************)
(* Curtain fabric calculator (src/main.py): the measurement calculator,    *)
(* the working list of window entries kept in the Streamlit session, the   *)
(* edit cursor, and the customer / order store behind Save Order.          *)
(*                                                                         *)
(* Units.  Python floats are modelled by exact integers in a unit fine     *)
(* enough that every value the code can produce from half-inch inputs is   *)
(* an integer, so that "is a multiple of 0.5" is a property and not a      *)
(* typing convention:                                                      *)
(*   Width, Height   half inches            (60.0 in  = 120)               *)
(*   height factor   hundredths             (1.90     = 190)               *)
(*   Quantity        hundredths             (10.04    = 1004)              *)
(*   Track (ft)      1/24 foot              (6.0 ft   = 144)               *)
(*   SQFT            1/576 square foot      (45.0     = 25920)             *)
(*   Panels          units                                                 *)
(***************************************************************************)
EXTENDS Integers, Sequences, FiniteSets, TLC

(***************************************************************************)
(* Python values: None, a number, and the AttributeError raised by         *)
(* None.startswith.                                                        *)
(***************************************************************************)
None == [kind |-> "None"]

Num(x) == [kind |-> "num", val |-> x]

AttributeError == [kind |-> "AttributeError"]

is_number(x) == x.kind = "num"

(***************************************************************************)
(* Stitch types.  The six values the form offers, two values that only a   *)
(* stored order can carry, and the missing key (e.get("Stitch Type")       *)
(* returning None).                                                        *)
(***************************************************************************)
Roman48 == "Roman Blinds 48\""

Roman54 == "Roman Blinds 54\""

BlindsRegular == "Blinds (Regular)"

FormStitchTypes == {"Pleated", "Ripple", "Eyelet", Roman48, Roman54, BlindsRegular}

UnknownStitch == "Grommet"

UnknownRomanStitch == "Roman Shade"

MissingStitch == "<None>"

AllStitchTypes == FormStitchTypes \cup {UnknownStitch, UnknownRomanStitch, MissingStitch}

\* stitch.startswith("Roman"), over AllStitchTypes
StartsWithRoman(stitch) == stitch \in {Roman48, Roman54, UnknownRomanStitch}

(***************************************************************************)
(* Arithmetic helpers                                                      *)
(***************************************************************************)
\* math.ceil(n / d) for n >= 0, d > 0
Ceil(n, d) == (n + d - 1) \div d

\* Python round(n / d): nearest integer, ties to the even one
RoundHalfEven(n, d) ==
    LET q == n \div d
        r == n % d
    IN  IF 2 * r < d THEN q
        ELSE IF 2 * r > d THEN q + 1
        ELSE IF q % 2 = 0 THEN q ELSE q + 1

(***************************************************************************)
(* Measurement calculator                                                  *)
(***************************************************************************)
\* round((height + 14) / 39, 2), in hundredths; height in half inches
calculate_height_factor(height) == RoundHalfEven((height + 28) * 100, 78)

calculate_quantity(stitch, width, height) ==
    LET h == calculate_height_factor(height)
    IN  IF stitch = "Pleated" THEN Num(RoundHalfEven(width, 36) * h)
        ELSE IF stitch = "Ripple" THEN Num(RoundHalfEven(width, 40) * h)
        ELSE IF stitch = "Eyelet" THEN Num(RoundHalfEven(width, 48) * h)
        ELSE IF stitch = Roman48
             THEN LET panels == Ceil(width, 88)
                  IN  Num(RoundHalfEven(panels * h, 100) * 100)
        ELSE IF stitch = Roman54
             THEN LET panels == Ceil(width, 100)
                  IN  Num(RoundHalfEven(panels * h, 100) * 100)
        ELSE Num(0)

\* faulty variant: the track rounded to the nearest half foot instead of up
calculate_track_ft_nearest(width, stitch) ==
    IF stitch = MissingStitch THEN AttributeError
    ELSE IF StartsWithRoman(stitch) \/ stitch = BlindsRegular THEN None
    ELSE Num(RoundHalfEven(width, 12) * 12)

calculate_track_ft(width, stitch) ==
    IF stitch = MissingStitch THEN AttributeError
    ELSE IF StartsWithRoman(stitch) \/ stitch = BlindsRegular THEN None
    ELSE Num(Ceil(width, 12) * 12)

\* faulty variant: rounds up to the whole foot
ceil_to_whole(inches) == Ceil(inches, 24) * 24

\* math.ceil(value * 2) / 2 for value = inches / 12, result in 1/24 foot
ceil_to_half(inches) == Ceil(inches, 12) * 12

\* faulty variant: the older revision's SQFT, from feet rounded to the nearest whole
calculate_sqft_rounded(width, height, stitch) ==
    IF stitch = MissingStitch THEN AttributeError
    ELSE IF StartsWithRoman(stitch) \/ stitch = BlindsRegular
         THEN Num((RoundHalfEven(width, 24) * 24) * (RoundHalfEven(height, 24) * 24))
    ELSE None

calculate_sqft_for_roman_or_regular(width, height, stitch) ==
    IF stitch = MissingStitch THEN AttributeError
    ELSE IF StartsWithRoman(stitch) \/ stitch = BlindsRegular
         THEN LET w_ft == ceil_to_half(width)
                  h_ft == ceil_to_half(height)
              IN  Num(w_ft * h_ft)
    ELSE None

calculate_panels(stitch, width) ==
    IF stitch = "Pleated" THEN Num(RoundHalfEven(width, 36))
    ELSE IF stitch = "Ripple" THEN Num(RoundHalfEven(width, 40))
    ELSE IF stitch = "Eyelet" THEN Num(RoundHalfEven(width, 48))
    ELSE None

\* The four calls every row constructor makes, in the code's order; the
\* first call that raises aborts the construction.
Measure(stitch, width, height) ==
    LET q == calculate_quantity(stitch, width, height)
        t == calculate_track_ft(width, stitch)
        s == calculate_sqft_for_roman_or_regular(width, height, stitch)
        p == calculate_panels(stitch, width)
    IN  IF AttributeError \in {q, t, s, p}
        THEN [raised |-> TRUE, Quantity |-> None, Track |-> None,
              SQFT |-> None, Panels |-> None]
        ELSE [raised |-> FALSE, Quantity |-> q, Track |-> t,
              SQFT |-> s, Panels |-> p]


(***************************************************************************)
(* Window names.  A name is the text before the first " - Layer " (base)   *)
(* followed by the layer numbers of its " - Layer <n>" suffixes, so that   *)
(* "A - Layer 1 - Layer 2" is [base |-> "A", layers |-> <<1, 2>>].  Base   *)
(* texts never contain " - Layer ".                                        *)
(***************************************************************************)
Name(base, layers) == [base |-> base, layers |-> layers]

Plain(base) == Name(base, <<>>)

\* " - Layer " in w
ContainsLayerSep(w) == w.layers # <<>>

\* w.split(" - Layer ")[0]
SplitBase(w) == w.base

\* the leading digit of w.split(" - Layer ")[1]
SplitLayerNum(w) == w.layers[1]

\* " - Layer <k>" in w
ContainsLayer(w, k) == \E i \in DOMAIN w.layers : w.layers[i] = k

\* f"{w} - Layer {k}"
WithLayer(w, k) == [w EXCEPT !.layers = Append(@, k)]

\* str.strip() of a base text
StripText(t) == IF t = " " THEN "" ELSE t

\* w.strip(): a name that is blank before its first " - Layer <k>" loses the
\* separator's leading space, and "- Layer <k>" becomes its base text
strip(w) ==
    IF w.layers = <<>> THEN Plain(StripText(w.base))
    ELSE IF StripText(w.base) = ""
         THEN Name(IF Head(w.layers) = 1 THEN "- Layer 1" ELSE "- Layer 2",
                   Tail(w.layers))
    ELSE w

\* truth value of a str: only the empty string is false
Truthy(w) == w # Plain("")

(***************************************************************************)
(* Session state, stores and the calculator's probe                        *)
(***************************************************************************)
VARIABLES
    entries,           \* st.session_state["entries"]
    edit_index,        \* st.session_state["edit_index"], NoIndex for None
    current_customer,  \* st.session_state["current_customer"]
    customers,         \* db.customers, in insertion order; _id = position
    orders,            \* db.orders, in insertion order
    fs_files,          \* GridFS files, in insertion order; file id = position
    calc_in,           \* the calculator's arguments
    calc_out           \* what the calculator returned for calc_in

vars == <<entries, edit_index, current_customer, customers, orders, fs_files,
          calc_in, calc_out>>

session_vars == <<entries, edit_index, current_customer>>

store_vars == <<customers, orders, fs_files>>

calc_vars == <<calc_in, calc_out>>

\* edit_index = None; list positions are 1-based in the model
NoIndex == 0

NoCustomer == [id |-> 0, name |-> "", phone |-> ""]

(***************************************************************************)
(* Bounds and input sets                                                   *)
(***************************************************************************)
MaxEntries == 3

MaxLayers == 1

\* what the clerk types into "Window Name"
NameInputs == {Plain("A")}

\* (stitch, width, height) the clerk enters: 60 x 84 in, 100 x 60 in
FormMeasures ==
    { <<"Pleated", 120, 168>>, <<Roman48, 200, 120>> }

\* st.file_uploader results
UploadInputs == { <<>> }

(***************************************************************************)
(* Row constructor: the dict literals of the submit handler and of         *)
(* load_order_into_session.                                                *)
(***************************************************************************)
Row(window, stitch, width, height, imgs) ==
    LET m == Measure(stitch, width, height)
    IN  [Window |-> window, Stitch |-> stitch, Width |-> width,
         Height |-> height, Quantity |-> m.Quantity, Track |-> m.Track,
         SQFT |-> m.SQFT, Panels |-> m.Panels, Images |-> imgs]

RemoveAt(s, i) == SubSeq(s, 1, i - 1) \o SubSeq(s, i + 1, Len(s))

(***************************************************************************)
(* Edit context: which rows the form is editing                            *)
(***************************************************************************)
\* The loop of find_pair_indexes_by_base from row i on, with the idx1 and
\* idx2 found so far.
RECURSIVE PairScan(_, _, _, _, _)
PairScan(es, base_name, i, idx1, idx2) ==
    IF i > Len(es) THEN <<idx1, idx2>>
    ELSE LET w == es[i].Window
         IN  IF w = Plain(base_name) THEN <<i, NoIndex>>
             ELSE IF ContainsLayerSep(w) /\ SplitBase(w) = base_name
                  THEN IF SplitLayerNum(w) = 1
                       THEN PairScan(es, base_name, i + 1, i, idx2)
                       ELSE IF SplitLayerNum(w) = 2
                            THEN PairScan(es, base_name, i + 1, idx1, i)
                            ELSE PairScan(es, base_name, i + 1, idx1, idx2)
             ELSE PairScan(es, base_name, i + 1, idx1, idx2)

find_pair_indexes_by_base(es, base_name) ==
    PairScan(es, base_name, 1, NoIndex, NoIndex)

\* for i in (idx_a, idx_b): "Layer 1" in the name sets layer1_idx, else
\* "Layer 2" sets layer2_idx; the second index overwrites the first
LayerIndexes(es, idx_a, idx_b) ==
    LET step(acc, i) ==
            IF i = NoIndex THEN acc
            ELSE IF ContainsLayer(es[i].Window, 1) THEN <<i, acc[2]>>
            ELSE IF ContainsLayer(es[i].Window, 2) THEN <<acc[1], i>>
            ELSE acc
    IN  step(step(<<NoIndex, NoIndex>>, idx_a), idx_b)

NoPrefill == [Window |-> Plain(""), Stitch |-> MissingStitch, Width |-> 0,
              Height |-> 0, Quantity |-> None, Track |-> None, SQFT |-> None,
              Panels |-> None, Images |-> <<>>]

\* e_prefill, editing_pair_base and pair_indexes as the script computes them
\* on every run from edit_index and the entries
EditContext(es, edit_idx) ==
    LET none == [editing |-> FALSE, e_prefill |-> NoPrefill, pair |-> FALSE,
                 editing_pair_base |-> "", pair_indexes |-> <<NoIndex, NoIndex>>]
    IN  IF edit_idx = NoIndex \/ edit_idx > Len(es) THEN none
        ELSE
          LET sel_win == es[edit_idx].Window
              base == IF ContainsLayerSep(sel_win) THEN SplitBase(sel_win)
                      ELSE sel_win.base
              idx == find_pair_indexes_by_base(es, base)
              single == [editing |-> TRUE, e_prefill |-> es[edit_idx],
                         pair |-> FALSE, editing_pair_base |-> "",
                         pair_indexes |-> idx]
          IN  IF idx[1] # NoIndex /\ idx[2] # NoIndex
              THEN LET l == LayerIndexes(es, idx[1], idx[2])
                       layer1_idx == IF l[1] = NoIndex /\ l[2] # NoIndex
                                     THEN l[2] ELSE l[1]
                   IN  IF layer1_idx # NoIndex
                       THEN [editing |-> TRUE, e_prefill |-> es[layer1_idx],
                             pair |-> TRUE, editing_pair_base |-> base,
                             pair_indexes |-> idx]
                       ELSE single
              ELSE single

\* "if e_prefill and editing_pair_base": an empty base text is false
EditingPair(ctx) == ctx.editing /\ ctx.pair /\ ctx.editing_pair_base # ""

(***************************************************************************)
(* Submit handler of the Add / Edit form (if add: ...)                     *)
(***************************************************************************)
\* rows of the list after the pair branch
UpdatePair(es, ctx, win_name, main, sheer, is_double, imgs) ==
    LET l == LayerIndexes(es, ctx.pair_indexes[1], ctx.pair_indexes[2])
        entry_main == Row(IF is_double THEN WithLayer(strip(win_name), 1)
                          ELSE strip(win_name),
                          main[1], main[2], main[3], imgs)
        es1 == IF l[1] # NoIndex THEN [es EXCEPT ![l[1]] = entry_main]
               ELSE Append(es, entry_main)
        entry_sheer == Row(WithLayer(strip(win_name), 2),
                           sheer[1], sheer[2], sheer[3], imgs)
    IN  IF is_double
        THEN IF l[2] # NoIndex THEN [es1 EXCEPT ![l[2]] = entry_sheer]
             ELSE Append(es1, entry_sheer)
        ELSE IF l[2] # NoIndex THEN RemoveAt(es1, l[2]) ELSE es1

\* rows of the list after the single-row branch
UpdateSingle(es, edit_idx, ctx, win_name, main, imgs) ==
    LET entry == Row(IF Truthy(win_name) THEN win_name ELSE ctx.e_prefill.Window,
                     main[1], main[2], main[3], imgs)
    IN  [es EXCEPT ![edit_idx] = entry]

\* faulty variant: the second layer measured from the main layer's values
AddRowsMirrored(es, win_name, main, sheer, is_double, imgs) ==
    LET row1 == Row(IF is_double THEN WithLayer(strip(win_name), 1)
                    ELSE strip(win_name),
                    main[1], main[2], main[3], imgs)
        row2 == Row(WithLayer(strip(win_name), 2),
                    main[1], main[2], main[3], imgs)
    IN  IF is_double THEN Append(Append(es, row1), row2) ELSE Append(es, row1)

\* rows of the list after the add branch
AddRows(es, win_name, main, sheer, is_double, imgs) ==
    LET row1 == Row(IF is_double THEN WithLayer(strip(win_name), 1)
                    ELSE strip(win_name),
                    main[1], main[2], main[3], imgs)
        row2 == Row(WithLayer(strip(win_name), 2),
                    sheer[1], sheer[2], sheer[3], imgs)
    IN  IF is_double THEN Append(Append(es, row1), row2) ELSE Append(es, row1)

\* the list the handler leaves, for the form's values
SubmitResult(es, edit_idx, win_name, main, sheer_in, is_double, files) ==
    LET ctx == EditContext(es, edit_idx)
        imgs == IF files # <<>> THEN files
                ELSE IF ctx.editing THEN ctx.e_prefill.Images ELSE <<>>
        sheer == IF is_double THEN sheer_in ELSE main
    IN  IF EditingPair(ctx)
        THEN UpdatePair(es, ctx, win_name, main, sheer, is_double, imgs)
        ELSE IF ctx.editing
        THEN UpdateSingle(es, edit_idx, ctx, win_name, main, imgs)
        ELSE AddRows(es, win_name, main, sheer, is_double, imgs)

\* what "Window Name" can hold at submit: typed text, or the prefilled value
NameChoices(es, edit_idx) ==
    LET ctx == EditContext(es, edit_idx)
    IN  NameInputs \cup (IF ctx.editing THEN {ctx.e_prefill.Window} ELSE {})

\* "Double layer?" and the sheer layer's values: disabled sheer inputs mirror
\* the main layer
LayerChoices(main) ==
    {<<FALSE, main>>} \cup {<<TRUE, sheer>> : sheer \in FormMeasures}

WithinBounds(es) ==
    /\ Len(es) <= MaxEntries
    /\ \A i \in DOMAIN es : Len(es[i].Window.layers) <= MaxLayers

Submit(win_name, main, sheer, is_double, files) ==
    /\ UNCHANGED <<current_customer, store_vars, calc_vars>>
    /\ edit_index' = IF EditContext(entries, edit_index).editing THEN NoIndex
                     ELSE edit_index
    /\ \E es \in {SubmitResult(entries, edit_index, win_name, main, sheer,
                                is_double, files)} :
          /\ WithinBounds(es)
          /\ entries' = es

(***************************************************************************)
(* Buttons under the table of windows                                      *)
(***************************************************************************)
EditSelected(selected_row) ==
    /\ selected_row \in DOMAIN entries
    /\ edit_index' = selected_row
    /\ UNCHANGED <<entries, current_customer, store_vars, calc_vars>>

\* faulty variant: the cursor is left alone
DeleteSelectedKeepsCursor(selected_row) ==
    /\ selected_row \in DOMAIN entries
    /\ entries' = RemoveAt(entries, selected_row)
    /\ UNCHANGED <<edit_index, current_customer, store_vars, calc_vars>>

\* faulty variant: the row that follows a deleted Layer 1 row goes with it
DeleteSelectedCascade(selected_row) ==
    /\ selected_row \in DOMAIN entries
    /\ entries' =
          IF /\ ContainsLayer(entries[selected_row].Window, 1)
             /\ selected_row < Len(entries)
          THEN RemoveAt(RemoveAt(entries, selected_row), selected_row)
          ELSE RemoveAt(entries, selected_row)
    /\ edit_index' = IF edit_index = selected_row THEN NoIndex ELSE edit_index
    /\ UNCHANGED <<current_customer, store_vars, calc_vars>>

DeleteSelected(selected_row) ==
    /\ selected_row \in DOMAIN entries
    /\ entries' = RemoveAt(entries, selected_row)
    /\ edit_index' = IF edit_index = selected_row THEN NoIndex ELSE edit_index
    /\ UNCHANGED <<current_customer, store_vars, calc_vars>>

ResetAll ==
    /\ entries # <<>>
    /\ entries' = <<>>
    /\ current_customer' = NoCustomer
    /\ edit_index' = NoIndex
    /\ UNCHANGED <<store_vars, calc_vars>>

(***************************************************************************)
(* Customer search and reload of the latest saved order                    *)
(***************************************************************************)
\* load_image_bytes_from_ref: the file's bytes, or nothing when fs.get fails
\* or the file is empty
LoadedImages(refs, files) ==
    LET ok(i) == refs[i] \in DOMAIN files /\ files[refs[i]] # ""
        F[i \in 0..Len(refs)] ==
            IF i = 0 THEN <<>>
            ELSE IF ok(i) THEN Append(F[i - 1], files[refs[i]]) ELSE F[i - 1]
    IN  F[Len(refs)]

\* faulty variant: the stored derived fields restored as saved
LoadedRowsVerbatim(order, files) ==
    [i \in DOMAIN order.entries |->
        [order.entries[i] EXCEPT
            !.Images = LoadedImages(order.entries[i].Images, files)]]

\* the rows load_order_into_session builds from a stored order
LoadedRows(order, files) ==
    [i \in DOMAIN order.entries |->
        LET e == order.entries[i]
        IN  Row(e.Window, e.Stitch, e.Width, e.Height,
                LoadedImages(e.Images, files))]

\* whether building the rows raises (None.startswith)
LoadRaises(order) ==
    \E i \in DOMAIN order.entries :
        LET e == order.entries[i]
        IN  Measure(e.Stitch, e.Width, e.Height).raised

\* search_customers: ids of the matching customers, newest first
search_customers(term) ==
    LET match(c) == term = "" \/ c.name = term \/ c.phone = term
        F[i \in 0..Len(customers)] ==
            IF i = 0 THEN <<>>
            ELSE IF match(customers[i]) THEN <<i>> \o F[i - 1] ELSE F[i - 1]
    IN  F[Len(customers)]

\* get_orders_for_customer: positions of the customer's orders, newest first
get_orders_for_customer(cid) ==
    LET F[i \in 0..Len(orders)] ==
            IF i = 0 THEN <<>>
            ELSE IF orders[i].customer_id = cid THEN <<i>> \o F[i - 1]
            ELSE F[i - 1]
    IN  F[Len(orders)]

\* the Search button: the first result becomes the current customer and its
\* latest order replaces the working list
SearchAndLoad(term) ==
    LET results == search_customers(term)
        cid == results[1]
        found == get_orders_for_customer(cid)
    IN  /\ results # <<>>
        /\ current_customer' = [id |-> cid, name |-> customers[cid].name,
                                phone |-> customers[cid].phone]
        /\ IF found # <<>> /\ LoadRaises(orders[found[1]])
           THEN UNCHANGED <<entries, edit_index>>
           ELSE /\ entries' = IF found # <<>>
                              THEN LoadedRows(orders[found[1]], fs_files)
                              ELSE entries
                /\ edit_index' = NoIndex
        /\ UNCHANGED <<store_vars, calc_vars>>

(***************************************************************************)
(* Save Order                                                              *)
(***************************************************************************)
\* faulty variant: the list of windows is not looked at
SaveOrderAcceptsAnyList(es, c_name, c_phone) ==
    ~(c_name = "" /\ c_phone = "")

\* the two warnings that end the handler before the store is touched
SaveOrderAccepts(es, c_name, c_phone) ==
    /\ ~(c_name = "" /\ c_phone = "")
    /\ es # <<>>

\* db.customers.find_one on one field: the oldest match, NoIndex for none
FindCustomer(cs, field, value) ==
    LET hits == {i \in DOMAIN cs : cs[i][field] = value}
    IN  IF hits = {} THEN NoIndex
        ELSE CHOOSE i \in hits : \A j \in hits : i <= j

\* faulty variant: the phone is never looked up
save_customer_by_name(cs, name, phone) ==
    LET phone_s == StripText(phone)
        name_s == StripText(name)
        by_name == IF name_s # "" THEN FindCustomer(cs, "name", name_s)
                   ELSE NoIndex
    IN  IF by_name # NoIndex THEN [cid |-> by_name, customers |-> cs]
        ELSE [cid |-> Len(cs) + 1,
              customers |-> Append(cs, [name |-> name_s, phone |-> phone_s])]

\* save_customer_if_new: the customer's id and the collection it leaves
save_customer_if_new(cs, name, phone) ==
    LET phone_s == StripText(phone)
        name_s == StripText(name)
        by_phone == IF phone_s # "" THEN FindCustomer(cs, "phone", phone_s)
                    ELSE NoIndex
        by_name == IF name_s # "" THEN FindCustomer(cs, "name", name_s)
                   ELSE NoIndex
    IN  IF by_phone # NoIndex THEN [cid |-> by_phone, customers |-> cs]
        ELSE IF by_name # NoIndex THEN [cid |-> by_name, customers |-> cs]
        ELSE [cid |-> Len(cs) + 1,
              customers |-> Append(cs, [name |-> name_s, phone |-> phone_s])]

update_customer_db(cs, cid, name, phone) ==
    [cs EXCEPT ![cid] = [name |-> StripText(name), phone |-> StripText(phone)]]

\* the non-empty blobs of a list of images, in order
NonEmptyBlobs(images) == SelectSeq(images, LAMBDA b : b # "")

\* save_order's loop: the stored rows, their Images replaced by the ids that
\* fs.put returned, and the files written, given the files already there
RECURSIVE SaveRows(_, _, _, _)
SaveRows(es, i, files, docs) ==
    IF i > Len(es) THEN [files |-> files, docs_entries |-> docs]
    ELSE LET blobs == NonEmptyBlobs(es[i].Images)
             refs == [k \in 1..Len(blobs) |-> Len(files) + k]
         IN  SaveRows(es, i + 1, files \o blobs,
                      Append(docs, [es[i] EXCEPT !.Images = refs]))

\* every blob save_order hands to fs.put, in the order of the calls
AllBlobs(es) ==
    LET F[i \in 0..Len(es)] ==
            IF i = 0 THEN <<>> ELSE F[i - 1] \o NonEmptyBlobs(es[i].Images)
    IN  F[Len(es)]

AnyImage(es) == AllBlobs(es) # <<>>

SaveFailures == {"none", "customer", "update", "image", "order"}

\* The Save Order button.  fail names the store operation that raises:
\* nothing, the customer lookup or insert, update_customer_db, the k-th
\* fs.put, or the insert of the order.  Nothing undoes what was written
\* before the exception reaches the handler's except clause.
SaveOrder(c_name, c_phone, fail, k) ==
    LET saved == save_customer_if_new(customers, c_name, c_phone)
        cid == saved.cid
        same == current_customer # NoCustomer /\ current_customer.id = cid
        updated == IF same
                   THEN update_customer_db(saved.customers, cid, c_name, c_phone)
                   ELSE saved.customers
        rows == SaveRows(entries, 1, fs_files, <<>>)
        order == [id |-> Len(orders) + 1, customer_id |-> cid,
                  entries |-> rows.docs_entries]
    IN  /\ SaveOrderAccepts(entries, c_name, c_phone)
        /\ fail = "update" => same
        /\ k \in (IF fail = "image" THEN 1..Len(AllBlobs(entries)) ELSE {1})
        /\ customers' = CASE fail = "customer" -> customers
                          [] fail = "update" -> saved.customers
                          [] OTHER -> updated
        /\ fs_files' = CASE fail \in {"none", "order"} -> rows.files
                         [] fail = "image" ->
                              fs_files \o SubSeq(AllBlobs(entries), 1, k - 1)
                         [] OTHER -> fs_files
        /\ orders' = IF fail = "none" THEN Append(orders, order) ELSE orders
        /\ current_customer' =
               IF fail = "none"
               THEN [id |-> cid, name |-> c_name, phone |-> c_phone]
               ELSE current_customer
        /\ UNCHANGED <<entries, edit_index, calc_vars>>

\* Save Order with nothing to save or nobody to save it for: a warning
SaveOrderRejected(c_name, c_phone) ==
    /\ ~SaveOrderAccepts(entries, c_name, c_phone)
    /\ UNCHANGED vars

(***************************************************************************)
(* Totals under the table (total_qty, total_track, total_sqft, total_panels)*)
(***************************************************************************)
\* "x or 0": None and 0 both give 0
OrZero(x) == IF x = None \/ x = Num(0) THEN Num(0) ELSE x

\* faulty variant: total_sqft assigned instead of accumulated
TotalsStepAssign(acc, e) ==
    LET q == OrZero(e.Quantity)
        t == e.Track
        s == OrZero(e.SQFT)
        p == OrZero(e.Panels)
    IN  [qty    |-> IF is_number(q) THEN acc.qty + q.val ELSE acc.qty,
         track  |-> IF is_number(t) THEN acc.track + t.val ELSE acc.track,
         sqft   |-> IF is_number(s) THEN s.val ELSE acc.sqft,
         panels |-> IF is_number(p) THEN acc.panels + p.val ELSE acc.panels]

\* one pass of the loop body over row e
TotalsStep(acc, e) ==
    LET q == OrZero(e.Quantity)
        t == e.Track
        s == OrZero(e.SQFT)
        p == OrZero(e.Panels)
    IN  [qty    |-> IF is_number(q) THEN acc.qty + q.val ELSE acc.qty,
         track  |-> IF is_number(t) THEN acc.track + t.val ELSE acc.track,
         sqft   |-> IF is_number(s) THEN acc.sqft + s.val ELSE acc.sqft,
         panels |-> IF is_number(p) THEN acc.panels + p.val ELSE acc.panels]

totals(es) ==
    LET F[i \in 0..Len(es)] ==
            IF i = 0 THEN [qty |-> 0, track |-> 0, sqft |-> 0, panels |-> 0]
            ELSE TotalsStep(F[i - 1], es[i])
    IN  F[Len(es)]

(***************************************************************************)
(* PDF export                                                              *)
(***************************************************************************)
\* the Table generate_pdf_bytes builds for row r: always these seven rows
AttributeTable(r) ==
    << [label |-> "Stitch Type", value |-> r.Stitch],
       [label |-> "Width", value |-> r.Width],
       [label |-> "Height", value |-> r.Height],
       [label |-> "Quantity", value |-> r.Quantity],
       [label |-> "Track (ft)", value |-> r.Track],
       [label |-> "SQFT", value |-> r.SQFT],
       [label |-> "Panels", value |-> r.Panels] >>

\* the PDF section renders only with a current customer and some windows
PdfRendered == current_customer # NoCustomer /\ entries # <<>>

\* the attribute tables of the rendered document, one per row of the list
generate_pdf_tables(es) == [i \in DOMAIN es |-> AttributeTable(es[i])]

(***************************************************************************)
(* A store left by earlier sessions: one customer whose latest order holds *)
(* a layer pair written by an older revision of the calculator (SQFT       *)
(* computed with round(), no panel count) and an image reference whose     *)
(* file is gone.                                                           *)
(***************************************************************************)
StoredCustomers == << [name |-> "N1", phone |-> "P1"] >>

StoredOrders ==
    << [id |-> 1, customer_id |-> 1,
        entries |->
          << [Window |-> Name("A", <<1>>), Stitch |-> "Pleated",
              Width |-> 120, Height |-> 168, Quantity |-> Num(753),
              Track |-> Num(120), SQFT |-> None, Panels |-> None,
              Images |-> <<>>],
             [Window |-> Name("A", <<2>>), Stitch |-> Roman48,
              Width |-> 200, Height |-> 120, Quantity |-> Num(600),
              Track |-> None, SQFT |-> Num(23040), Panels |-> None,
              Images |-> <<1>>] >>] >>

StoredFiles == << >>

\* what the clerk types into the search box
SearchInputs == {"", "N1"}

(***************************************************************************)
(* The editing session                                                     *)
(***************************************************************************)
CalcIdle == [stitch |-> MissingStitch, width |-> 0, height |-> 0]

Pending == [raised |-> FALSE, Quantity |-> None, Track |-> None,
            SQFT |-> None, Panels |-> None, pending |-> TRUE]

Init ==
    /\ entries = <<>>
    /\ edit_index = NoIndex
    /\ current_customer = NoCustomer
    /\ customers = StoredCustomers
    /\ orders = StoredOrders
    /\ fs_files = StoredFiles
    /\ calc_in = CalcIdle
    /\ calc_out = Pending

Next ==
    \/ \E win_name \in NameChoices(entries, edit_index),
          main \in FormMeasures, files \in UploadInputs :
            \E layer2 \in LayerChoices(main) :
                Submit(win_name, main, layer2[2], layer2[1], files)
    \/ \E selected_row \in DOMAIN entries : EditSelected(selected_row)
    \/ \E selected_row \in DOMAIN entries : DeleteSelected(selected_row)
    \/ ResetAll
    \/ \E term \in SearchInputs : SearchAndLoad(term)

Spec == Init /\ [][Next]_vars

(***************************************************************************)
(* The calculator on its own                                               *)
(***************************************************************************)
MaxWidth == 240

MaxHeight == 200

InitCalc ==
    /\ entries = <<>>
    /\ edit_index = NoIndex
    /\ current_customer = NoCustomer
    /\ customers = <<>>
    /\ orders = <<>>
    /\ fs_files = <<>>
    /\ calc_in \in [stitch : AllStitchTypes, width : 0..MaxWidth,
                    height : 0..MaxHeight]
    /\ calc_out = Pending

Calculate ==
    /\ calc_out = Pending
    /\ calc_out' = Measure(calc_in.stitch, calc_in.width, calc_in.height)
    /\ UNCHANGED <<calc_in, session_vars, store_vars>>

NextCalc == Calculate

SpecCalc == InitCalc /\ [][NextCalc]_vars

(***************************************************************************)
(* Saving orders: a draft on the screen, the Save Order button with every  *)
(* way a store call can raise, customer search and Reset All               *)
(***************************************************************************)
MaxCustomers == 2

MaxOrders == 2

MaxFiles == 4

\* "Customer Name" and "Customer Phone" as typed
SaveNames == {"", " ", "N1"}

SavePhones == {"", "P2"}

\* the windows on the screen when the clerk turns to the customer section:
\* none, or one with two photos and an empty upload between them
StoreDrafts ==
    { <<>>,
      << Row(Plain("A"), Roman48, 200, 120, <<"jpg", "", "png">>) >> }

InitStore ==
    /\ entries \in StoreDrafts
    /\ edit_index = NoIndex
    /\ current_customer = NoCustomer
    /\ customers = StoredCustomers
    /\ orders = <<>>
    /\ fs_files = <<>>
    /\ calc_in = CalcIdle
    /\ calc_out = Pending

StoreWithinBounds ==
    /\ Len(customers') <= MaxCustomers
    /\ Len(orders') <= MaxOrders
    /\ Len(fs_files') <= MaxFiles

NextStore ==
    \/ \E c_name \in SaveNames, c_phone \in SavePhones,
          fail \in SaveFailures, k \in 1..MaxFiles :
            SaveOrder(c_name, c_phone, fail, k) /\ StoreWithinBounds
    \/ \E c_name \in SaveNames, c_phone \in SavePhones :
            SaveOrderRejected(c_name, c_phone)
    \/ \E term \in SearchInputs : SearchAndLoad(term)
    \/ ResetAll

SpecStore == InitStore /\ [][NextStore]_vars

(***************************************************************************)
(* The form with "Window Name" left blank or holding only a space          *)
(***************************************************************************)
BlankNameInputs == {Plain(""), Plain(" "), Plain("A")}

\* what "Window Name" can hold at submit: typed text, or the prefilled value
BlankNameChoices(es, edit_idx) ==
    LET ctx == EditContext(es, edit_idx)
    IN  BlankNameInputs \cup (IF ctx.editing THEN {ctx.e_prefill.Window} ELSE {})

NextNames ==
    \/ \E win_name \in BlankNameChoices(entries, edit_index),
          main \in FormMeasures, files \in UploadInputs :
            \E layer2 \in LayerChoices(main) :
                Submit(win_name, main, layer2[2], layer2[1], files)
    \/ \E selected_row \in DOMAIN entries : EditSelected(selected_row)
    \/ \E selected_row \in DOMAIN entries : DeleteSelected(selected_row)

SpecNames == Init /\ [][NextNames]_vars

(***************************************************************************)
(* Properties of the calculator (SpecCalc)                                 *)
(***************************************************************************)
Calculated == calc_out # Pending

RomanOrRegular(stitch) == StartsWithRoman(stitch) \/ stitch = BlindsRegular

\* C2: for a stitch type that is neither a Roman blind nor Blinds (Regular),
\* the track length is a number, a multiple of 0.5 ft (12 units of 1/24 ft)
\* and at least width / 12 ft (width half inches = width units of 1/24 ft).
C2_TrackHalfFootCeiling ==
    (Calculated /\ calc_in.stitch # MissingStitch
                /\ ~RomanOrRegular(calc_in.stitch))
        => /\ is_number(calc_out.Track)
           /\ calc_out.Track.val % 12 = 0
           /\ calc_out.Track.val >= calc_in.width

\* 72.5 in of Pleated needs 6.5 ft of track
C2_Witness ==
    /\ Calculated
    /\ calc_in.stitch = "Pleated"
    /\ calc_in.width = 145
    /\ calc_out.Track = Num(156)

\* C3: for Roman blinds and Blinds (Regular) the SQFT is a number, a multiple
\* of 0.25 sq ft (144 units of 1/576 sq ft) and at least
\* (width / 12) * (height / 12); for Pleated, Ripple and Eyelet it is None.
C3_SqftQuarterCeiling ==
    Calculated =>
        /\ calc_in.stitch \in {Roman48, Roman54, BlindsRegular}
            => /\ is_number(calc_out.SQFT)
               /\ calc_out.SQFT.val % 144 = 0
               /\ calc_out.SQFT.val >= calc_in.width * calc_in.height
        /\ calc_in.stitch \in {"Pleated", "Ripple", "Eyelet"}
            => calc_out.SQFT = None

\* 100 x 58 in Roman blind: 8.5 ft x 5.0 ft
C3_Witness ==
    /\ Calculated
    /\ calc_in = [stitch |-> Roman54, width |-> 200, height |-> 116]
    /\ calc_out.SQFT = Num(204 * 120)

\* C4: a stitch type outside the six known values, the missing one included,
\* gives quantity 0 and no track, SQFT or panel count, and raises nothing.
C4_UnknownStitchFailsSoft ==
    (Calculated /\ calc_in.stitch \notin FormStitchTypes)
        => /\ ~calc_out.raised
           /\ calc_out.Quantity = Num(0)
           /\ calc_out.Track = None
           /\ calc_out.SQFT = None
           /\ calc_out.Panels = None

\* C5 as claimed: Roman Blinds 48", 100 x 60 in gives quantity 6, no track,
\* no panel count, and SQFT = ceil_to_half(100/12) * ceil_to_half(60/12)
\* = 9.0 * 5.0 = 45.0.
C5_ScenarioB_Claimed ==
    (Calculated /\ calc_in = [stitch |-> Roman48, width |-> 200, height |-> 120])
        => /\ ~calc_out.raised
           /\ calc_out.Quantity = Num(600)
           /\ calc_out.Track = None
           /\ calc_out.Panels = None
           /\ ceil_to_half(calc_in.width) = 9 * 24
           /\ ceil_to_half(calc_in.height) = 5 * 24
           /\ calc_out.SQFT = Num(45 * 576)

\* C5 as amended: Roman Blinds 48", 100 x 60 in gives quantity 6, no track,
\* no panel count, and SQFT = ceil_to_half(100/12) * ceil_to_half(60/12)
\* = 8.5 * 5.0 = 42.5 (ceil(8.33 * 2) / 2 is 8.5, not 9.0).
C5_ScenarioB ==
    (Calculated /\ calc_in = [stitch |-> Roman48, width |-> 200, height |-> 120])
        => /\ ~calc_out.raised
           /\ calc_out.Quantity = Num(600)
           /\ calc_out.Track = None
           /\ calc_out.Panels = None
           /\ 2 * ceil_to_half(calc_in.width) = 17 * 24
           /\ ceil_to_half(calc_in.height) = 5 * 24
           /\ 2 * calc_out.SQFT.val = 85 * 576

C5_Witness ==
    /\ Calculated
    /\ calc_in = [stitch |-> Roman48, width |-> 200, height |-> 120]
    /\ calc_out.Quantity = Num(600)
    /\ is_number(calc_out.SQFT)

(***************************************************************************)
(* Properties of the editing session (Spec)                                *)
(***************************************************************************)
\* row e carries exactly what the calculator returns for measure m
MeasuredFrom(e, m) ==
    /\ e.Stitch = m[1] /\ e.Width = m[2] /\ e.Height = m[3]
    /\ e.Quantity = calculate_quantity(m[1], m[2], m[3])
    /\ e.Track = calculate_track_ft(m[2], m[1])
    /\ e.SQFT = calculate_sqft_for_roman_or_regular(m[2], m[3], m[1])
    /\ e.Panels = calculate_panels(m[1], m[2])

\* C1: every row of the working list carries the Quantity, Track (ft), SQFT
\* and Panels the calculator returns for the row's own stitch type, width and
\* height.
C1_DerivedFieldsFollowInputs ==
    \A i \in DOMAIN entries :
        MeasuredFrom(entries[i],
                     <<entries[i].Stitch, entries[i].Width, entries[i].Height>>)

\* the stored pair reloaded (its SQFT was stored as 40.0), then a row added
C1_Witness ==
    /\ current_customer # NoCustomer
    /\ Len(entries) = 3
    /\ entries[2].Window = Name("A", <<2>>)
    /\ entries[2].SQFT = Num(204 * 120)
    /\ entries[3].Stitch = "Pleated"

Editing == EditContext(entries, edit_index).editing

\* C6: a submit outside an edit appends two rows "<base> - Layer 1" and
\* "<base> - Layer 2", in that order and each measured from its own values,
\* when the double-layer flag is set, and one row when it is clear; the rows
\* already present keep their places and contents.
C6_AddAppends ==
    [][\A win_name \in NameChoices(entries, edit_index),
          main \in FormMeasures, files \in UploadInputs :
          \A layer2 \in LayerChoices(main) :
            (~Editing /\ Submit(win_name, main, layer2[2], layer2[1], files))
              => LET n == Len(entries)
                     base == strip(win_name)
                 IN  /\ SubSeq(entries', 1, n) = entries
                     /\ IF layer2[1]
                        THEN /\ Len(entries') = n + 2
                             /\ entries'[n + 1].Window = WithLayer(base, 1)
                             /\ entries'[n + 2].Window = WithLayer(base, 2)
                             /\ MeasuredFrom(entries'[n + 1], main)
                             /\ MeasuredFrom(entries'[n + 2], layer2[2])
                        ELSE /\ Len(entries') = n + 1
                             /\ MeasuredFrom(entries'[n + 1], main)
      ]_vars

\* a window, then a double-layer window with different layers
C6_Witness ==
    /\ Len(entries) = 3
    /\ edit_index = NoIndex
    /\ entries[1].Window = Plain("A")
    /\ entries[2].Window = Name("A", <<1>>)
    /\ entries[2].Stitch = "Pleated"
    /\ entries[3].Window = Name("A", <<2>>)
    /\ entries[3].Stitch = Roman48

\* rows of es named "<base> - Layer <k>..."
LayerRows(es, base, k) ==
    {j \in DOMAIN es : /\ ContainsLayerSep(es[j].Window)
                       /\ SplitBase(es[j].Window) = base
                       /\ SplitLayerNum(es[j].Window) = k}

\* C7: on an update, a row that belongs to a layer pair is replaced together
\* with its sibling; turning the double-layer flag off removes the Layer 2
\* sibling; turning it on for a row without a Layer 2 sibling creates one.
C7_UpdateKeepsPairsTogether ==
    [][\A win_name \in NameChoices(entries, edit_index),
          main \in FormMeasures, files \in UploadInputs :
          \A layer2 \in LayerChoices(main) :
            (Editing /\ Submit(win_name, main, layer2[2], layer2[1], files))
              => LET w == entries[edit_index].Window
                     base == SplitBase(w)
                     l1 == LayerRows(entries, base, 1)
                     l2 == LayerRows(entries, base, 2)
                     in_pair == /\ edit_index \in l1 \cup l2
                                /\ l1 # {} /\ l2 # {}
                     new == strip(win_name)
                 IN  /\ (in_pair /\ layer2[1])
                          => /\ Len(entries') = Len(entries)
                             /\ \E a \in l1, b \in l2 :
                                  /\ edit_index \in {a, b}
                                  /\ entries'[a].Window = WithLayer(new, 1)
                                  /\ MeasuredFrom(entries'[a], main)
                                  /\ entries'[b].Window = WithLayer(new, 2)
                                  /\ MeasuredFrom(entries'[b], layer2[2])
                     /\ (in_pair /\ ~layer2[1])
                          => /\ Len(entries') = Len(entries) - 1
                             /\ \E a \in l1, b \in l2 :
                                  /\ edit_index \in {a, b}
                                  /\ entries' = RemoveAt(
                                       [entries EXCEPT ![a] = entries'[
                                           IF a < b THEN a ELSE a - 1]], b)
                                  /\ MeasuredFrom(
                                       entries'[IF a < b THEN a ELSE a - 1],
                                       main)
                     /\ (l2 = {} /\ layer2[1])
                          => \E j \in DOMAIN entries' :
                               /\ entries'[j].Window = WithLayer(new, 2)
                               /\ MeasuredFrom(entries'[j], layer2[2])
      ]_vars

\* C8: deleting a row removes that row and nothing else: the list is one
\* shorter, the other rows (the layer sibling too) are unchanged and in the
\* same order; and the list that is left, a lone Layer 1 row included, passes
\* the checks of Save Order.
C8_DeleteRemovesOneRow ==
    [][\A selected_row \in DOMAIN entries :
          DeleteSelected(selected_row)
            => /\ Len(entries') = Len(entries) - 1
               /\ \A j \in 1..(selected_row - 1) : entries'[j] = entries[j]
               /\ \A j \in selected_row..(Len(entries) - 1) :
                      entries'[j] = entries[j + 1]
               /\ entries' # <<>>
                      => /\ SaveOrderAccepts(entries', "N1", "")
                         /\ SaveOrderAccepts(entries', "", "P1")
      ]_vars

\* Layer 1 left alone after its Layer 2 was there
C8_Witness ==
    /\ Len(entries) = 1
    /\ entries[1].Window = Name("A", <<1>>)
    /\ SaveOrderAccepts(entries, "N1", "")

Contribution(x) == IF is_number(x) THEN x.val ELSE 0

RECURSIVE SumOver(_, _)
SumOver(f, S) ==
    IF S = {} THEN 0
    ELSE LET x == CHOOSE y \in S : TRUE
         IN  f[x] + SumOver(f, S \ {x})

Permuted(es, p) == [i \in DOMAIN es |-> es[p[i]]]

\* C10: each total is the sum of its field over the rows, None counting 0,
\* and no permutation of the rows changes the totals.
C10_TotalsAreSums ==
    LET t == totals(entries)
        D == DOMAIN entries
    IN  /\ t.qty = SumOver([i \in D |-> Contribution(entries[i].Quantity)], D)
        /\ t.track = SumOver([i \in D |-> Contribution(entries[i].Track)], D)
        /\ t.sqft = SumOver([i \in D |-> Contribution(entries[i].SQFT)], D)
        /\ t.panels = SumOver([i \in D |-> Contribution(entries[i].Panels)], D)
        /\ \A p \in Permutations(D) : totals(Permuted(entries, p)) = t

\* two blinds and a curtain
C10_Witness ==
    /\ Len(entries) = 3
    /\ entries[1].Stitch = Roman48
    /\ entries[2].Stitch = "Pleated"
    /\ entries[3].Stitch = Roman48
    /\ totals(entries).sqft = 2 * 204 * 120
    /\ totals(entries).track = 120

(***************************************************************************)
(* Properties of Save Order (SpecStore)                                    *)
(***************************************************************************)
\* C11: Save Order with both name and phone empty, or with no windows,
\* changes no customer, no order, no stored file and not the list of windows;
\* and a step that changes the customers or the orders is a Save Order with a
\* name or a phone given and at least one window.
C11_RejectedSaveTouchesNothing ==
    [][/\ \A c_name \in SaveNames, c_phone \in SavePhones :
             ((c_name = "" /\ c_phone = "") \/ entries = <<>>)
               => \A fail \in SaveFailures, k \in 1..MaxFiles :
                    (\/ SaveOrder(c_name, c_phone, fail, k)
                     \/ SaveOrderRejected(c_name, c_phone))
                      => UNCHANGED <<store_vars, entries>>
       /\ (customers' # customers \/ orders' # orders)
            => /\ entries # <<>>
               /\ \E c_name \in SaveNames, c_phone \in SavePhones :
                     /\ c_name # "" \/ c_phone # ""
                     /\ \E fail \in SaveFailures, k \in 1..MaxFiles :
                           SaveOrder(c_name, c_phone, fail, k)
      ]_vars

\* an order was saved, then Reset All emptied the list: Save Order now warns
C11_Witness ==
    /\ entries = <<>>
    /\ orders # <<>>
    /\ ~SaveOrderAccepts(entries, "N1", "P1")

\* C12: a Save Order in which a store call raises leaves the customers, the
\* orders and the stored files exactly as they were.
C12_FailedSaveLeavesStoreUnchanged ==
    [][\A c_name \in SaveNames, c_phone \in SavePhones,
          fail \in SaveFailures \ {"none"}, k \in 1..MaxFiles :
          SaveOrder(c_name, c_phone, fail, k) => UNCHANGED store_vars
      ]_vars

\* C13: when one fs.put of a Save Order raises, the order is still inserted
\* and every other image of the order is written.
C13_FailedImageIsSkipped ==
    [][\A c_name \in SaveNames, c_phone \in SavePhones, k \in 1..MaxFiles :
          SaveOrder(c_name, c_phone, "image", k)
            => /\ Len(orders') = Len(orders) + 1
               /\ Len(fs_files') =
                      Len(fs_files) + Len(AllBlobs(entries)) - 1
      ]_vars

HasField(cs, field, value) == \E i \in DOMAIN cs : cs[i][field] = value

\* C15: save_customer_if_new returns a customer with the given non-empty
\* trimmed phone when there is one, else a customer with the given non-empty
\* trimmed name when there is one, else appends exactly one record and
\* returns its id; and a Save Order whose phone some customer already has
\* adds no customer, while one that adds a customer leaves a customer with
\* that phone behind.
C15_FindOrCreate ==
    [][/\ \A name \in SaveNames, phone \in SavePhones :
             LET r == save_customer_if_new(customers, name, phone)
                 phone_s == StripText(phone)
                 name_s == StripText(name)
             IN  IF phone_s # "" /\ HasField(customers, "phone", phone_s)
                 THEN /\ r.customers = customers
                      /\ r.cid \in DOMAIN customers
                      /\ customers[r.cid].phone = phone_s
                 ELSE IF name_s # "" /\ HasField(customers, "name", name_s)
                 THEN /\ r.customers = customers
                      /\ r.cid \in DOMAIN customers
                      /\ customers[r.cid].name = name_s
                 ELSE /\ r.customers =
                            Append(customers,
                                   [name |-> name_s, phone |-> phone_s])
                      /\ r.cid = Len(customers) + 1
       /\ Len(customers') # Len(customers)
            => \A c_name \in SaveNames, c_phone \in SavePhones \ {""},
                  fail \in SaveFailures, k \in 1..MaxFiles :
                  SaveOrder(c_name, c_phone, fail, k)
                    => /\ ~HasField(customers, "phone", StripText(c_phone))
                       /\ Len(customers') = Len(customers) + 1
                       /\ HasField(customers', "phone", StripText(c_phone))
      ]_vars

\* a customer created by a save with phone P2, and a second order saved for
\* the same customer
C15_Witness ==
    /\ Len(customers) = 2
    /\ customers[2].phone = "P2"
    /\ Len(orders) = 2
    /\ orders[1].customer_id = 2
    /\ orders[2].customer_id = 2

\* C19: every customer record has a non-empty name or a non-empty phone.
C19_CustomersAreIdentified ==
    \A i \in DOMAIN customers :
        customers[i].name # "" \/ customers[i].phone # ""

(***************************************************************************)
(* Properties of window names (SpecNames)                                  *)
(***************************************************************************)
\* C14: a window added with a blank name is stored under the name "Window",
\* and no row of the working list ever has an empty window name.
C14_BlankNameBecomesWindow ==
    [][/\ \A i \in DOMAIN entries' : entries'[i].Window # Plain("")
       /\ ~Editing
            => \A win_name \in {Plain(""), Plain(" ")},
                  main \in FormMeasures, files \in UploadInputs :
                  Submit(win_name, main, main, FALSE, files)
                    => entries'[Len(entries')].Window = Plain("Window")
      ]_vars

(***************************************************************************)
(* Properties of the PDF export, the cursor and the update frame (Spec)    *)
(***************************************************************************)
DerivedLabels == {"Track (ft)", "SQFT", "Panels"}

\* C16: the attribute table of every row of the rendered document holds the
\* stitch type, width, height and quantity, and a Track (ft), SQFT or Panels
\* row exactly when that value is not None.
C16_PdfOmitsNoneRows ==
    PdfRendered =>
        \A i \in DOMAIN entries :
            LET tbl == generate_pdf_tables(entries)[i]
                labels == {tbl[j].label : j \in DOMAIN tbl}
            IN  /\ {"Stitch Type", "Width", "Height", "Quantity"}
                       \subseteq labels
                /\ ("Track (ft)" \in labels) <=> (entries[i].Track # None)
                /\ ("SQFT" \in labels) <=> (entries[i].SQFT # None)
                /\ ("Panels" \in labels) <=> (entries[i].Panels # None)
                /\ \A j \in DOMAIN tbl :
                      tbl[j].label \in DerivedLabels => tbl[j].value # None

\* C17: the cursor is None or a position of the list, and while it stays
\* where it is it keeps denoting the row it was set on.
C17_CursorDenotesEditedRow ==
    [][edit_index' # NoIndex
         => /\ edit_index' \in DOMAIN entries'
            /\ (edit_index' = edit_index /\ edit_index \in DOMAIN entries)
                 => entries'[edit_index'] = entries[edit_index]
      ]_vars

\* the rows that carry the other layer of row i's window
Siblings(es, i) ==
    IF ~ContainsLayerSep(es[i].Window) THEN {}
    ELSE {j \in DOMAIN es \ {i} :
            /\ ContainsLayerSep(es[j].Window)
            /\ SplitBase(es[j].Window) = SplitBase(es[i].Window)
            /\ SplitLayerNum(es[j].Window) # SplitLayerNum(es[i].Window)}

\* C18: an update leaves every row other than the edited row and the row of
\* its other layer as it was, in the same order.
C18_UpdateTouchesOnlyEditedWindow ==
    [][Editing
         => \A win_name \in NameChoices(entries, edit_index),
               main \in FormMeasures, files \in UploadInputs :
               \A layer2 \in LayerChoices(main) :
                 Submit(win_name, main, layer2[2], layer2[1], files)
                   => LET allowed == {edit_index}
                                       \cup Siblings(entries, edit_index)
                          others == DOMAIN entries \ allowed
                      IN  IF Len(entries') >= Len(entries)
                          THEN \A j \in others : entries'[j] = entries[j]
                          ELSE /\ Len(entries') = Len(entries) - 1
                               /\ \E b \in allowed :
                                    \A j \in others :
                                      entries'[IF j < b THEN j ELSE j - 1]
                                        = entries[j]
      ]_vars

=============================================================================
